---- MODULE Spec2Model ----
(***************************************************************************)
(* Model of signaling_server.py: the connection and room registries of     *)
(* SignalingServer and the per-connection asyncio tasks that mutate them.  *)
(*                                                                         *)
(* One task runs handle_client for each connection.  Tasks are cooperative *)
(* coroutines of one event loop: a task runs alone from one suspension     *)
(* point (an await that can really block: reader.read, writer.drain,       *)
(* writer.wait_closed) to the next.  Every action below is one such        *)
(* stretch of code.  A drain may or may not block; a task that yields and  *)
(* is resumed before any other task ran behaves as one that did not yield, *)
(* so every drain is modelled as a suspension point.                       *)
(***************************************************************************)
EXTENDS Integers, Sequences, FiniteSets, TLC

\* ---------------------------------------------------------------- bounds
MaxConns == 3
MaxFrames == 4
MaxBatch == 1
OrderFrames == 3
MaxSeed == 1
MaxCut == 12
MaxTail == 2
MaxWire == 3

Conns == 1..MaxConns
NoConn == 0
None == "None"

\* ------------------------------------------------------------ JSON texts
\* A text is what travels in a text frame.  form: "object" (a JSON object,
\* kv its members in textual order, duplicates allowed), "array" (valid JSON
\* that is no object), "invalid" (no JSON), "badutf8" (bytes that are no
\* UTF-8), "raw" (opaque control-frame payload).  spaced tells whether the
\* separators carry a blank, as json.dumps writes them.
Text(kv) == [form |-> "object", spaced |-> FALSE, kv |-> kv]
Garbage == [form |-> "invalid", spaced |-> FALSE, kv |-> <<>>]
ArrayText == [form |-> "array", spaced |-> FALSE, kv |-> <<>>]
BadUtf8 == [form |-> "badutf8", spaced |-> FALSE, kv |-> <<>>]
Raw == [form |-> "raw", spaced |-> FALSE, kv |-> <<>>]

JoinA == Text(<< <<"type", "join">>, <<"room", "A">> >>)
JoinDefault == Text(<< <<"type", "join">> >>)
OfferA == Text(<< <<"type", "offer">>, <<"room", "A">>, <<"sdp", "x">>, <<"sdp", "y">> >>)
PresenceDefault == Text(<< <<"type", "presence">>, <<"from", "p">> >>)
LeaveA == Text(<< <<"type", "leave">>, <<"room", "A">> >>)

ClientTexts == {JoinA, JoinDefault, OfferA, PresenceDefault, LeaveA, Garbage}

Keys(d) == {d[i][1] : i \in 1..Len(d)}

\* A dict is a sequence of <<key, value>> with distinct keys, in insertion
\* order.  dict.__setitem__: overwrite in place or append.
SetItem(d, k, v) ==
  IF k \in Keys(d)
  THEN [i \in 1..Len(d) |-> IF d[i][1] = k THEN <<k, v>> ELSE d[i]]
  ELSE Append(d, <<k, v>>)

RECURSIVE DictOf(_)
DictOf(kv) ==
  IF kv = <<>> THEN <<>>
  ELSE LET n == Len(kv)
       IN SetItem(DictOf(SubSeq(kv, 1, n - 1)), kv[n][1], kv[n][2])

\* json.loads: ok = no JSONDecodeError, isdict = the value is an object.
JsonLoads(t) ==
  [ok |-> t.form \in {"object", "array"},
   isdict |-> t.form = "object",
   val |-> IF t.form = "object" THEN DictOf(t.kv) ELSE <<>>]

\* json.dumps of a dict: members in insertion order, ", " and ": " separators.
JsonDumps(d) == [form |-> "object", spaced |-> TRUE, kv |-> d]

\* dict.get(key, default)
Get(d, k, default) ==
  IF k \in Keys(d) THEN (CHOOSE p \in {d[i] : i \in 1..Len(d)} : p[1] = k)[2]
  ELSE default

RelayTypes == {"presence", "offer", "answer", "ice-candidate"}

\* --------------------------------------------------------------- frames
OpText == 1
OpBinary == 2
OpClose == 8
OpPing == 9
OpPong == 10

\* WebSocketFrame.build as the frame it denotes: fin=1, unmasked.
Frame(payload, opcode) == [fin |-> 1, opcode |-> opcode, mask |-> 0, payload |-> payload]

\* Frames a peer can send, as WebSocketFrame.parse returns them.
ClientFrames ==
  {[opcode |-> OpText, payload |-> t] : t \in ClientTexts \cup {BadUtf8}}
    \cup {[opcode |-> o, payload |-> Raw] : o \in {OpClose, OpPing, OpBinary}}
    \cup {[opcode |-> OpPing, payload |-> BadUtf8]}

\* one read that holds a close frame and a complete frame behind it
CloseBatches ==
  {<<[opcode |-> OpClose, payload |-> Raw], f>> :
     f \in {[opcode |-> OpText, payload |-> JoinA], [opcode |-> OpText, payload |-> OfferA],
            [opcode |-> OpPing, payload |-> Raw]}}

Batches == UNION {[1..n -> ClientFrames] : n \in 1..MaxBatch} \cup CloseBatches

\* ---------------------------------------------------- WebSocketFrame, bytes
\* A byte is a number in 0..255, a byte string a sequence of bytes.
Len7Max == 125
Len16Max == 65535
Huge == 2147483647

\* the bit of byte a that is worth d (d a power of two), a | b and a ^ b
Bit(a, d) == (a \div d) % 2
BitOr(a, b) ==
  LET f(d) == (IF Bit(a, d) + Bit(b, d) > 0 THEN d ELSE 0)
  IN f(1) + f(2) + f(4) + f(8) + f(16) + f(32) + f(64) + f(128)
Xor(a, b) ==
  LET f(d) == (IF Bit(a, d) = Bit(b, d) THEN 0 ELSE d)
  IN f(1) + f(2) + f(4) + f(8) + f(16) + f(32) + f(64) + f(128)

\* struct.pack('>H', n) and struct.pack('>Q', n), for n below 2^31
Pack16(n) == <<(n \div 256) % 256, n % 256>>
Pack64(n) ==
  <<0, 0, 0, 0, (n \div 16777216) % 256, (n \div 65536) % 256, (n \div 256) % 256, n % 256>>

\* struct.unpack('>H', b)[0] and struct.unpack('>Q', b)[0]; a 64-bit length of
\* 2^31 or more is longer than any buffer here (Huge)
Unpack16(b) == b[1] * 256 + b[2]
Unpack64(b) ==
  IF b[1] + b[2] + b[3] + b[4] > 0 \/ b[5] >= 128 THEN Huge
  ELSE b[5] * 16777216 + b[6] * 65536 + b[7] * 256 + b[8]

\* bytes([payload[i] ^ mask_key[i % 4] for i in range(len(payload))])
Unmask(payload, mask_key) ==
  [i \in 1..Len(payload) |-> Xor(payload[i], mask_key[((i - 1) % 4) + 1])]

\* parse returned None
NoFrame == [ok |-> FALSE, fin |-> 0, opcode |-> 0, payload |-> <<>>, length |-> 0]

\* WebSocketFrame.parse(data)
parse(data) ==
  IF Len(data) < 2 THEN NoFrame
  ELSE
    LET byte1 == data[1]
        byte2 == data[2]
        fin == byte1 \div 128
        opcode == byte1 % 16
        masked == byte2 \div 128
        len7 == byte2 % 128
    IN IF (len7 = 126 /\ Len(data) < 4) \/ (len7 = 127 /\ Len(data) < 10) THEN NoFrame
       ELSE
         LET payload_len == IF len7 = 126 THEN Unpack16(SubSeq(data, 3, 4))
                            ELSE IF len7 = 127 THEN Unpack64(SubSeq(data, 3, 10))
                            ELSE len7
             ext == IF len7 = 126 THEN 4 ELSE IF len7 = 127 THEN 10 ELSE 2
             offset == IF masked = 1 THEN ext + 4 ELSE ext
         IN IF masked = 1 /\ Len(data) < ext + 4 THEN NoFrame
            ELSE IF Len(data) - offset < payload_len THEN NoFrame
            ELSE
              [ok |-> TRUE, fin |-> fin, opcode |-> opcode,
               payload |-> IF masked = 1
                           THEN Unmask(SubSeq(data, offset + 1, offset + payload_len),
                                       SubSeq(data, ext + 1, ext + 4))
                           ELSE SubSeq(data, offset + 1, offset + payload_len),
               length |-> offset + payload_len]

\* build with "<= 126" in place of "< 126"
build_offbyone(payload, opcode) ==
  LET n == Len(payload)
      first == <<BitOr(128, opcode)>>
  IN IF n <= 126 THEN first \o <<n>> \o payload
     ELSE IF n < 65536 THEN first \o <<126>> \o Pack16(n) \o payload
     ELSE first \o <<127>> \o Pack64(n) \o payload

\* WebSocketFrame.build(payload, opcode), payload a byte string
build(payload, opcode) ==
  LET n == Len(payload)
      first == <<BitOr(128, opcode)>>
  IN IF n < 126 THEN first \o <<n>> \o payload
     ELSE IF n < 65536 THEN first \o <<126>> \o Pack16(n) \o payload
     ELSE first \o <<127>> \o Pack64(n) \o payload

\* payloads of the lengths around the three length encodings, with contents
\* that differ from byte to byte
Pattern(n, b) == [i \in 1..n |-> (7 * i + 131 * b) % 256]
PayloadLens ==
  {0, 10, Len7Max, Len7Max + 1, 200, Len16Max, Len16Max + 1}
Payloads == {Pattern(n, b) : n \in PayloadLens, b \in 0..MaxSeed}
Opcodes == 0..15

\* The bytes of a frame as a peer sends it: final, masked with key or, when
\* key is <<>>, unmasked, as parse decodes it.
ClientBytes(f) ==
  LET n == Len(f.payload)
      m == IF f.key = <<>> THEN 0 ELSE 128
  IN <<128 + f.opcode>>
       \o (IF n < 126 THEN <<m + n>> ELSE <<m + 126>> \o Pack16(n))
       \o f.key
       \o (IF f.key = <<>> THEN f.payload
           ELSE [i \in 1..n |-> Xor(f.payload[i], f.key[((i - 1) % 4) + 1])])

MaskKey == <<55, 250, 33, 61>>
WireFrames ==
  {[opcode |-> OpText, payload |-> <<>>, key |-> <<>>],
   [opcode |-> OpText, payload |-> <<72, 105>>, key |-> MaskKey],
   [opcode |-> OpText, payload |-> Pattern(Len7Max + 1, 0), key |-> MaskKey],
   [opcode |-> OpPing, payload |-> <<72, 105>>, key |-> <<>>],
   [opcode |-> OpPing, payload |-> <<>>, key |-> MaskKey],
   [opcode |-> OpClose, payload |-> <<>>, key |-> MaskKey]}
Wires == UNION {[1..n -> WireFrames] : n \in 1..MaxWire}

RECURSIVE Concat(_)
Concat(fs) == IF fs = <<>> THEN <<>> ELSE ClientBytes(Head(fs)) \o Concat(Tail(fs))

\* the inner loop with "if buffer:" in place of "while buffer:"
Dispatch_once(buf, log) ==
  LET frame == parse(buf) IN
  IF buf = <<>> \/ ~frame.ok
  THEN [rbuf |-> buf, log |-> log, done |-> FALSE]
  ELSE [rbuf |-> SubSeq(buf, frame.length + 1, Len(buf)),
        log |-> Append(log, frame), done |-> frame.opcode = OpClose]

\* The inner loop of handle_client (lines 164-181) on the buffer buf: parse,
\* slice, dispatch (recorded in log), until the buffer is empty, parse
\* returns None or a close frame makes handle_client return (done).
RECURSIVE Dispatch(_, _)
Dispatched(buf, log, frame) ==
  IF ~frame.ok
  THEN [rbuf |-> buf, log |-> log, done |-> FALSE]
  ELSE IF frame.opcode = OpClose
  THEN [rbuf |-> SubSeq(buf, frame.length + 1, Len(buf)), log |-> Append(log, frame),
        done |-> TRUE]
  ELSE Dispatch(SubSeq(buf, frame.length + 1, Len(buf)), Append(log, frame))

Dispatch(buf, log) ==
  IF buf = <<>> THEN [rbuf |-> buf, log |-> log, done |-> FALSE]
  ELSE Dispatched(buf, log, parse(buf))

VARIABLES
  loop,       \* one connection's read loop on the bytes its peer sends
  codec,      \* a built frame on its way, chunk by chunk, into a buffer
  clients,    \* self.clients: registered websocket -> its 'rooms' set
  rooms,      \* self.rooms: room_id -> set of websockets
  pc,         \* where each connection task is
  buffer,     \* per task: frames read and not yet dispatched
  iter,       \* per task: the set iterator of its running broadcast
  stalled,    \* peers that stopped reading: a drain on them never returns
  nframes,    \* frames received so far, all connections together
  teardown,   \* per connection: effective close_connection runs, rooms they deleted
  lastClose,  \* the close_connection call of the latest step
  lastWrite,  \* the writer.write of the latest step, and the registries as it ran
  lastBcast,  \* the broadcast_to_room that the latest step ended
  lastMsg,    \* the text the latest step handed to handle_message
  hist        \* per recipient and sender: which of the sender's messages arrived

vars == <<clients, rooms, pc, buffer, iter, stalled, nframes, teardown, lastClose,
          lastWrite, lastBcast, lastMsg, hist, codec, loop>>

ServerVars == <<clients, rooms, pc, buffer, iter, stalled, nframes, teardown, lastClose,
                lastWrite, lastBcast, lastMsg, hist>>

EmptyMap == [x \in {} |-> {}]

NoIter ==
  [room |-> None, data |-> <<>>, orig |-> Raw, used |-> 0, rest |-> {},
   dirty |-> FALSE, detached |-> FALSE, cur |-> NoConn,
   start |-> {}, sent |-> [x \in Conns |-> 0], changed |-> FALSE, failed |-> FALSE]

NoWrite ==
  [to |-> NoConn, from |-> NoConn, kind |-> "none", frame |-> Frame(Raw, 0),
   orig |-> Raw, room |-> None, toReg |-> FALSE, toInRoom |-> FALSE,
   toDown |-> FALSE, fromRooms |-> {}, toRooms |-> {}]

NoBcast ==
  [sender |-> NoConn, room |-> None, start |-> {}, sent |-> [x \in Conns |-> 0],
   error |-> FALSE, changed |-> FALSE, failed |-> FALSE, missed |-> {}]

NoClose ==
  [conn |-> NoConn, cause |-> None, effect |-> FALSE, error |-> FALSE, same |-> TRUE,
   left |-> 0]

NoMsg ==
  [from |-> NoConn, kind |-> "none", room |-> None, known |-> FALSE, member |-> FALSE,
   text |-> Raw]

NoHist ==
  [cur |-> [s \in Conns |-> 0],
   got |-> [r \in Conns |-> [s \in Conns |-> [high |-> 0, below |-> 0]]]]

NoCodec == [live |-> FALSE, payload |-> <<>>, opcode |-> 0, wire |-> <<>>, rbuf |-> <<>>]

ServerInit ==
  /\ hist = NoHist
  /\ clients = EmptyMap
  /\ rooms = EmptyMap
  /\ pc = [c \in Conns |-> "handshaking"]
  /\ buffer = [c \in Conns |-> <<>>]
  /\ iter = [c \in Conns |-> NoIter]
  /\ stalled = {}
  /\ nframes = 0
  /\ teardown = [c \in Conns |-> [count |-> 0, emptied |-> {}]]
  /\ lastClose = NoClose
  /\ lastWrite = NoWrite
  /\ lastBcast = NoBcast
  /\ lastMsg = NoMsg

NoLoop ==
  [live |-> FALSE, sent |-> <<>>, stream |-> <<>>, ends |-> <<>>, wire |-> <<>>,
   rbuf |-> <<>>, log |-> <<>>, done |-> FALSE, last |-> 0]

Init == ServerInit /\ codec = NoCodec /\ loop = NoLoop

\* ------------------------------------------------------------ registries
\* the join branch without the test of line 203: the room is made anew
JoinRooms_reset(rm, room_id, ws) ==
  [r \in DOMAIN rm \cup {room_id} |-> IF r = room_id THEN {ws} ELSE rm[r]]

\* handle_message, join branch: create the room on first use, add the member.
JoinRooms(rm, room_id, ws) ==
  [r \in DOMAIN rm \cup {room_id} |->
     IF r = room_id THEN (IF r \in DOMAIN rm THEN rm[r] ELSE {}) \cup {ws} ELSE rm[r]]

\* the join branch without line 207
JoinClients_forgotten(cl, ws, room_id) == cl

\* handle_message, join branch: self.clients[websocket]['rooms'].add(room_id)
JoinClients(cl, ws, room_id) == [cl EXCEPT ![ws] = @ \cup {room_id}]

NormalClose(ws, cl, rm, gone) ==
  [clients |-> [x \in DOMAIN cl \ {ws} |-> cl[x]],
   rooms |-> [r \in DOMAIN rm \ gone |->
                IF r \in cl[ws] THEN rm[r] \ {ws} ELSE rm[r]],
   effect |-> TRUE, error |-> FALSE, emptied |-> gone]

\* close_connection with its guard inverted: "if websocket in self.clients: return"
close_connection_inverted(ws, cl, rm) ==
  [clients |-> cl, rooms |-> rm, effect |-> FALSE, error |-> ws \notin DOMAIN cl,
   emptied |-> {}]

\* close_connection without "del self.rooms[room_id]"
close_connection_keeps_rooms(ws, cl, rm) ==
  IF ws \notin DOMAIN cl
  THEN [clients |-> cl, rooms |-> rm, effect |-> FALSE, error |-> FALSE, emptied |-> {}]
  ELSE NormalClose(ws, cl, rm, {})

\* close_connection without its guard: self.clients[websocket] raises KeyError
close_connection_unguarded(ws, cl, rm) ==
  IF ws \notin DOMAIN cl
  THEN [clients |-> cl, rooms |-> rm, effect |-> FALSE, error |-> TRUE, emptied |-> {}]
  ELSE NormalClose(ws, cl, rm, {r \in cl[ws] \cap DOMAIN rm : rm[r] \ {ws} = {}})

\* close_connection up to its first await: the registries it leaves, whether
\* it did anything (effect), whether it raised (error), the rooms it deleted.
close_connection(ws, cl, rm) ==
  IF ws \notin DOMAIN cl
  THEN [clients |-> cl, rooms |-> rm, effect |-> FALSE, error |-> FALSE, emptied |-> {}]
  ELSE NormalClose(ws, cl, rm, {r \in cl[ws] \cap DOMAIN rm : rm[r] \ {ws} = {}})

\* The rooms the Room Registry lists ws in.
RoomsOf(ws, rm) == {r \in DOMAIN rm : ws \in rm[r]}

\* ------------------------------------------------- set iterators (line 245)
\* broadcast_to_room iterates self.rooms[room_id] itself, not a copy.  A set
\* iterator remembers the size of the set at creation (used) and raises
\* RuntimeError from next() when the size differs.  When the set was modified
\* and has its old size again, next() goes on from its table position: which
\* members lie ahead of it is decided by the hash table (rest is chosen anew).
\* A room deleted by close_connection leaves the iterator on the old, empty
\* set object (detached), whatever is registered under that name later.
View(it) == IF it.detached \/ it.room \notin DOMAIN rooms THEN {} ELSE rooms[it.room]

NewIter(room_id, data, orig) ==
  [NoIter EXCEPT !.room = room_id, !.data = data, !.orig = orig,
                 !.used = Cardinality(rooms[room_id]), !.rest = rooms[room_id],
                 !.start = rooms[room_id]]

\* set.add(ws) on rooms[room_id], seen by the iterators of suspended broadcasts
MarkJoin(itr, ws, room_id) ==
  [t \in Conns |->
     IF /\ itr[t].room = room_id /\ ~itr[t].detached
        /\ room_id \in DOMAIN rooms /\ ws \notin rooms[room_id]
     THEN [itr[t] EXCEPT !.dirty = TRUE, !.changed = TRUE]
     ELSE itr[t]]

\* set.discard(ws) and del self.rooms[r], seen by the same iterators
MarkClose(itr, ws) ==
  [t \in Conns |->
     IF /\ ws \in DOMAIN clients /\ itr[t].room \in clients[ws] /\ ~itr[t].detached
        /\ itr[t].room \in DOMAIN rooms /\ ws \in rooms[itr[t].room]
     THEN [itr[t] EXCEPT !.dirty = TRUE, !.changed = TRUE,
                         !.detached = (rooms[itr[t].room] \ {ws} = {})]
     ELSE itr[t]]

\* ---------------------------------------------------------------- writes
WriteRec(to, from, kind, frame, orig, room_id, cl, rm) ==
  [to |-> to, from |-> from, kind |-> kind, frame |-> frame, orig |-> orig,
   room |-> room_id, toReg |-> to \in DOMAIN cl,
   toInRoom |-> room_id \in DOMAIN rm /\ to \in rm[room_id],
   toDown |-> pc[to] \in {"closing", "closed", "crashed"},
   fromRooms |-> RoomsOf(from, rm), toRooms |-> RoomsOf(to, rm)]

Cont(b) == IF b = <<>> THEN "open" ELSE "dispatch"

\* ------------------------------------------------------------- handshake
HandshakeOk(c) ==
  /\ pc[c] = "handshaking"
  /\ clients' = [x \in DOMAIN clients \cup {c} |-> IF x = c THEN {} ELSE clients[x]]
  /\ pc' = [pc EXCEPT ![c] = "open"]
  /\ UNCHANGED <<rooms, buffer, iter, stalled, nframes, teardown>>
  /\ lastClose' = NoClose
  /\ lastWrite' = NoWrite
  /\ lastBcast' = NoBcast
  /\ lastMsg' = NoMsg

HandshakeFail(c) ==
  /\ pc[c] = "handshaking"
  /\ pc' = [pc EXCEPT ![c] = "rejected"]
  /\ UNCHANGED <<clients, rooms, buffer, iter, stalled, nframes, teardown>>
  /\ lastClose' = NoClose
  /\ lastWrite' = NoWrite
  /\ lastBcast' = NoBcast
  /\ lastMsg' = NoMsg

\* The stream ends inside the header block (lines 116-122): readline returns
\* b'' at once, which is neither b'\r\n' nor holds b':', so "while True" goes
\* round again.  readline on an ended stream returns without suspending.
HandshakeEOF(c) ==
  /\ pc[c] = "handshaking"
  /\ pc' = [pc EXCEPT ![c] = "header_loop"]
  /\ UNCHANGED <<clients, rooms, buffer, iter, stalled, nframes, teardown>>
  /\ lastClose' = NoClose
  /\ lastWrite' = NoWrite
  /\ lastBcast' = NoBcast
  /\ lastMsg' = NoMsg

\* one more round of the header loop on the ended stream: nothing changes
HeaderSpin(c) ==
  /\ pc[c] = "header_loop"
  /\ UNCHANGED vars

\* The event loop can resume a task: no task is running a stretch of code that
\* never reaches an await that suspends.
LoopFree == \A c \in Conns : pc[c] # "header_loop"

\* --------------------------------------------------------------- teardown
\* close_connection in the loop, and the loop going on to the next frame of
\* the buffer (no "return" at line 175)
Teardown_continues(c, cause, waitpc) ==
  LET r == close_connection(c, clients, rooms) IN
  /\ clients' = r.clients
  /\ rooms' = r.rooms
  /\ iter' = IF r.effect THEN MarkClose(iter, c) ELSE iter
  /\ teardown' = IF r.effect
                 THEN [teardown EXCEPT ![c] = [count |-> @.count + 1,
                                               emptied |-> r.emptied]]
                 ELSE teardown
  /\ lastClose' = [conn |-> c, cause |-> cause, effect |-> r.effect, error |-> r.error,
                   same |-> r.clients = clients /\ r.rooms = rooms,
                   left |-> Len(buffer[c])]
  /\ pc' = [pc EXCEPT ![c] = IF Len(buffer[c]) >= 2 THEN "dispatch"
                             ELSE IF r.effect THEN waitpc ELSE "closed"]
  /\ buffer' = [buffer EXCEPT ![c] = IF @ = <<>> THEN @ ELSE Tail(@)]

\* One invocation of close_connection(c) up to its await (wait_closed) or its
\* return.  waitpc is where the task stands when the call closed the writer:
\* "closing" inside the read loop, where return and the finally clause are still
\* to run, "closed" inside the finally clause, where only the end of the task
\* follows wait_closed.
Teardown(c, cause, waitpc) ==
  LET r == close_connection(c, clients, rooms) IN
  /\ clients' = r.clients
  /\ rooms' = r.rooms
  /\ iter' = IF r.effect THEN MarkClose(iter, c) ELSE iter
  /\ teardown' = IF r.effect
                 THEN [teardown EXCEPT ![c] = [count |-> @.count + 1,
                                               emptied |-> r.emptied]]
                 ELSE teardown
  /\ lastClose' = [conn |-> c, cause |-> cause, effect |-> r.effect, error |-> r.error,
                   same |-> r.clients = clients /\ r.rooms = rooms,
                   left |-> Len(buffer[c])]
  /\ pc' = [pc EXCEPT ![c] = IF r.error THEN "crashed"
                             ELSE IF r.effect THEN waitpc ELSE "closed"]
  /\ buffer' = [buffer EXCEPT ![c] = <<>>]

\* reader.read returned b'': break, then the finally clause
ReadEOF(c) ==
  /\ pc[c] = "open"
  /\ Teardown(c, "eof", "closed")
  /\ UNCHANGED <<stalled, nframes>>
  /\ lastWrite' = NoWrite
  /\ lastBcast' = NoBcast
  /\ lastMsg' = NoMsg

\* reader.read raised: except Exception, then the finally clause
ReadError(c) ==
  /\ pc[c] = "open"
  /\ Teardown(c, "error", "closed")
  /\ UNCHANGED <<stalled, nframes>>
  /\ lastWrite' = NoWrite
  /\ lastBcast' = NoBcast
  /\ lastMsg' = NoMsg

\* a close frame: close_connection inside the loop, suspended in wait_closed
DispatchClose(c) ==
  /\ pc[c] = "dispatch"
  /\ Head(buffer[c]).opcode = OpClose
  /\ Teardown(c, "frame", "closing")
  /\ UNCHANGED <<stalled, nframes>>
  /\ lastWrite' = NoWrite
  /\ lastBcast' = NoBcast
  /\ lastMsg' = NoMsg

\* wait_closed returned: return, then the finally clause calls close_connection again
CloseReturn(c) ==
  /\ pc[c] = "closing"
  /\ Teardown(c, "finally", "closed")
  /\ UNCHANGED <<stalled, nframes>>
  /\ lastWrite' = NoWrite
  /\ lastBcast' = NoBcast
  /\ lastMsg' = NoMsg

\* ------------------------------------------------------------ the read loop
\* reader.read returned data holding one or more complete frames
Read(c) ==
  /\ pc[c] = "open"
  /\ \E batch \in Batches :
       /\ nframes + Len(batch) <= MaxFrames
       /\ buffer' = [buffer EXCEPT ![c] = batch]
       /\ nframes' = nframes + Len(batch)
  /\ pc' = [pc EXCEPT ![c] = "dispatch"]
  /\ UNCHANGED <<clients, rooms, iter, stalled, teardown>>
  /\ lastClose' = NoClose
  /\ lastWrite' = NoWrite
  /\ lastBcast' = NoBcast
  /\ lastMsg' = NoMsg

\* the peer stops reading what the server writes to it
PeerStall(c) ==
  /\ c \in DOMAIN clients
  /\ c \notin stalled
  /\ \E t \in Conns : pc[t] = "bcast_wait" /\ iter[t].cur = c
  /\ stalled' = stalled \cup {c}
  /\ UNCHANGED <<clients, rooms, pc, buffer, iter, nframes, teardown>>
  /\ lastClose' = NoClose
  /\ lastWrite' = NoWrite
  /\ lastBcast' = NoBcast
  /\ lastMsg' = NoMsg

\* writer.drain() on x returns or raises: x reads, or x's transport is gone
DrainEnds(x) == x \notin stalled \/ x \notin DOMAIN clients

\* an opcode the loop has no branch for (binary, pong, continuation)
DispatchOther(c) ==
  /\ pc[c] = "dispatch"
  /\ Head(buffer[c]).opcode \notin {OpClose, OpPing, OpText}
  /\ buffer' = [buffer EXCEPT ![c] = Tail(@)]
  /\ pc' = [pc EXCEPT ![c] = Cont(Tail(buffer[c]))]
  /\ UNCHANGED <<clients, rooms, iter, stalled, nframes, teardown>>
  /\ lastClose' = NoClose
  /\ lastWrite' = NoWrite
  /\ lastBcast' = NoBcast
  /\ lastMsg' = NoMsg

\* a pong that always carries the same bytes, not the ping's payload
DispatchPing_fixed(c) ==
  /\ pc[c] = "dispatch"
  /\ Head(buffer[c]).opcode = OpPing
  /\ lastWrite' = WriteRec(c, c, "pong", Frame(Raw, OpPong),
                           Head(buffer[c]).payload, None, clients, rooms)
  /\ buffer' = [buffer EXCEPT ![c] = Tail(@)]
  /\ pc' = [pc EXCEPT ![c] = "pong_wait"]
  /\ UNCHANGED <<clients, rooms, iter, stalled, nframes, teardown>>
  /\ lastClose' = NoClose
  /\ lastBcast' = NoBcast
  /\ lastMsg' = NoMsg

\* a ping: write the pong, await drain
DispatchPing(c) ==
  /\ pc[c] = "dispatch"
  /\ Head(buffer[c]).opcode = OpPing
  /\ lastWrite' = WriteRec(c, c, "pong", Frame(Head(buffer[c]).payload, OpPong),
                           Head(buffer[c]).payload, None, clients, rooms)
  /\ buffer' = [buffer EXCEPT ![c] = Tail(@)]
  /\ pc' = [pc EXCEPT ![c] = "pong_wait"]
  /\ UNCHANGED <<clients, rooms, iter, stalled, nframes, teardown>>
  /\ lastClose' = NoClose
  /\ lastBcast' = NoBcast
  /\ lastMsg' = NoMsg

\* the pong's drain returned: next frame of the buffer, or the next read
PongDrained(c) ==
  /\ pc[c] = "pong_wait"
  /\ DrainEnds(c)
  /\ pc' = [pc EXCEPT ![c] = Cont(buffer[c])]
  /\ UNCHANGED <<clients, rooms, buffer, iter, stalled, nframes, teardown>>
  /\ lastClose' = NoClose
  /\ lastWrite' = NoWrite
  /\ lastBcast' = NoBcast
  /\ lastMsg' = NoMsg

\* the pong's drain raised: except Exception, then the finally clause
PongFailed(c) ==
  /\ pc[c] = "pong_wait"
  /\ DrainEnds(c)
  /\ Teardown(c, "error", "closed")
  /\ UNCHANGED <<stalled, nframes>>
  /\ lastWrite' = NoWrite
  /\ lastBcast' = NoBcast
  /\ lastMsg' = NoMsg

\* a text frame whose payload is no UTF-8: decode raises in handle_client
DispatchBadText(c) ==
  /\ pc[c] = "dispatch"
  /\ Head(buffer[c]).opcode = OpText
  /\ Head(buffer[c]).payload.form = "badutf8"
  /\ Teardown(c, "error", "closed")
  /\ UNCHANGED <<stalled, nframes>>
  /\ lastWrite' = NoWrite
  /\ lastBcast' = NoBcast
  /\ lastMsg' = NoMsg

\* --------------------------------------------------------- handle_message
\* handle_message with "else" in place of the test of line 216
MsgKind_anytype(t) ==
  LET r == JsonLoads(t) IN
  IF ~r.ok THEN "invalid"
  ELSE IF ~r.isdict THEN "error"
  ELSE IF Get(r.val, "type", None) = "join" THEN "join" ELSE "relay"

\* which branch of handle_message a text takes
MsgKind(t) ==
  LET r == JsonLoads(t) IN
  IF ~r.ok THEN "invalid"
  ELSE IF ~r.isdict THEN "error"
  ELSE LET ty == Get(r.val, "type", None)
       IN IF ty = "join" THEN "join"
          ELSE IF ty \in RelayTypes THEN "relay"
          ELSE "ignored"

\* room_id = data.get('room', 'default')
RoomOf(t) == Get(JsonLoads(t).val, "room", "default")

IsText(c) ==
  /\ pc[c] = "dispatch"
  /\ Head(buffer[c]).opcode = OpText
  /\ Head(buffer[c]).payload.form # "badutf8"

MsgRec(c, t) ==
  [from |-> c, kind |-> MsgKind(t),
   room |-> IF MsgKind(t) \in {"join", "relay"} THEN RoomOf(t) ELSE None,
   known |-> MsgKind(t) \in {"join", "relay"} /\ RoomOf(t) \in DOMAIN rooms,
   member |-> /\ MsgKind(t) \in {"join", "relay"} /\ RoomOf(t) \in DOMAIN rooms
              /\ c \in rooms[RoomOf(t)],
   text |-> t]

\* the relay branch runs broadcast_to_room
RelayGuard(room_id, rm) == room_id \in DOMAIN rm

\* invalid JSON, a JSON value that is no object, an unknown type, or a relay
\* naming a room that has no registry entry: nothing happens
HandleDropped(c) ==
  /\ IsText(c)
  /\ LET t == Head(buffer[c]).payload IN
       /\ \/ MsgKind(t) \in {"invalid", "error", "ignored"}
          \/ MsgKind(t) = "relay" /\ ~RelayGuard(RoomOf(t), rooms)
       /\ lastMsg' = MsgRec(c, t)
  /\ buffer' = [buffer EXCEPT ![c] = Tail(@)]
  /\ pc' = [pc EXCEPT ![c] = Cont(Tail(buffer[c]))]
  /\ UNCHANGED <<clients, rooms, iter, stalled, nframes, teardown>>
  /\ lastClose' = NoClose
  /\ lastWrite' = NoWrite
  /\ lastBcast' = NoBcast

\* an acknowledgment that names no room
JoinedAck_noroom(room_id) == JsonDumps(<< <<"type", "joined">> >>)

\* the acknowledgment of a join
JoinedAck(room_id) == JsonDumps(<< <<"type", "joined">>, <<"room", room_id>> >>)

\* a join that suspends between the registries and the acknowledgment: the
\* step that makes c a member writes nothing
HandleJoin_suspending(c) ==
  /\ IsText(c)
  /\ LET t == Head(buffer[c]).payload
         room_id == RoomOf(t)
     IN /\ MsgKind(t) = "join"
        /\ rooms' = JoinRooms(rooms, room_id, c)
        /\ clients' = JoinClients(clients, c, room_id)
        /\ iter' = MarkJoin(iter, c, room_id)
        /\ lastMsg' = MsgRec(c, t)
        /\ lastWrite' = NoWrite
  /\ buffer' = [buffer EXCEPT ![c] = Tail(@)]
  /\ pc' = [pc EXCEPT ![c] = "ack_wait"]
  /\ UNCHANGED <<stalled, nframes, teardown>>
  /\ lastClose' = NoClose
  /\ lastBcast' = NoBcast

\* join: both registries, then send_to_client writes the acknowledgment and
\* awaits drain
HandleJoin(c) ==
  /\ IsText(c)
  /\ LET t == Head(buffer[c]).payload
         room_id == RoomOf(t)
     IN /\ MsgKind(t) = "join"
        /\ rooms' = JoinRooms(rooms, room_id, c)
        /\ clients' = JoinClients(clients, c, room_id)
        /\ iter' = MarkJoin(iter, c, room_id)
        /\ lastMsg' = MsgRec(c, t)
        /\ lastWrite' = WriteRec(c, c, "ack", Frame(JoinedAck(room_id), OpText), t,
                                 room_id, clients', rooms')
  /\ buffer' = [buffer EXCEPT ![c] = Tail(@)]
  /\ pc' = [pc EXCEPT ![c] = "ack_wait"]
  /\ UNCHANGED <<stalled, nframes, teardown>>
  /\ lastClose' = NoClose
  /\ lastBcast' = NoBcast

\* the acknowledgment's drain returned or raised (send_to_client swallows it)
AckDrained(c) ==
  /\ pc[c] = "ack_wait"
  /\ DrainEnds(c)
  /\ pc' = [pc EXCEPT ![c] = Cont(buffer[c])]
  /\ UNCHANGED <<clients, rooms, buffer, iter, stalled, nframes, teardown>>
  /\ lastClose' = NoClose
  /\ lastWrite' = NoWrite
  /\ lastBcast' = NoBcast
  /\ lastMsg' = NoMsg

\* ------------------------------------------------------ broadcast_to_room
\* the guard without "client_ws != exclude"
SendGuard_noexclude(client_ws, exclude, cl) == client_ws \in DOMAIN cl

\* if client_ws != exclude and client_ws in self.clients
SendGuard(client_ws, exclude, cl) == client_ws # exclude /\ client_ws \in DOMAIN cl

\* a relay that rebuilds the message from its type and room only
RelayPayload_rebuilt(data) ==
  JsonDumps(<< <<"type", Get(data, "type", None)>>, <<"room", Get(data, "room", "default")>> >>)

\* message = json.dumps(data)
RelayPayload(data) == JsonDumps(data)

\* the loop is over: broadcast_to_room returned, or RuntimeError escaped it and
\* handle_message's except Exception swallowed it
EndBcast(c, it, err, b) ==
  /\ lastBcast' = [sender |-> c, room |-> it.room, start |-> it.start, sent |-> it.sent,
                   error |-> err, changed |-> it.changed \/ err, failed |-> it.failed,
                   missed |-> {x \in it.start \ {c} : it.sent[x] = 0 /\ x \in DOMAIN clients}]
  /\ iter' = [iter EXCEPT ![c] = NoIter]
  /\ pc' = [pc EXCEPT ![c] = Cont(b)]
  /\ lastWrite' = NoWrite

\* the broadcast as a task of its own: handle_client goes on at once
SendTo_detached(c, it, x, ahead) ==
  /\ lastWrite' = WriteRec(x, c, "relay", Frame(RelayPayload(it.data), OpText), it.orig,
                           it.room, clients, rooms)
  /\ iter' = [iter EXCEPT ![c] = [it EXCEPT !.rest = ahead \ {x}, !.dirty = FALSE,
                                            !.cur = x,
                                            !.sent = [@ EXCEPT ![x] = @ + 1]]]
  /\ pc' = [pc EXCEPT ![c] = "open"]
  /\ lastBcast' = NoBcast

\* client_ws.write(frame), then await client_ws.drain()
SendTo(c, it, x, ahead) ==
  /\ lastWrite' = WriteRec(x, c, "relay", Frame(RelayPayload(it.data), OpText), it.orig,
                           it.room, clients, rooms)
  /\ iter' = [iter EXCEPT ![c] = [it EXCEPT !.rest = ahead \ {x}, !.dirty = FALSE,
                                            !.cur = x,
                                            !.sent = [@ EXCEPT ![x] = @ + 1]]]
  /\ pc' = [pc EXCEPT ![c] = "bcast_wait"]
  /\ lastBcast' = NoBcast

\* the members next() can still yield
Ahead(it) == IF it.dirty THEN SUBSET View(it) ELSE {it.rest}

\* the for loop from where it stands to its next await, or to its end
Advance(c, it, b) ==
  IF Cardinality(View(it)) # it.used
  THEN EndBcast(c, it, TRUE, b)
  ELSE \E ahead \in Ahead(it) :
         LET sendable == {x \in ahead : SendGuard(x, c, clients)} IN
           \/ \E x \in sendable : SendTo(c, it, x, ahead)
           \/ sendable = {} /\ EndBcast(c, it, FALSE, b)

\* The place of the frame being dispatched in the order of arrival: frames of
\* one connection are dispatched in the order they arrived, one at a time.
Stamp(c) == nframes - Len(Tail(buffer[c]))

\* a relay message naming a room that has a registry entry
HandleRelay(c) ==
  /\ IsText(c)
  /\ LET t == Head(buffer[c]).payload
         room_id == RoomOf(t)
     IN /\ MsgKind(t) = "relay"
        /\ RelayGuard(room_id, rooms)
        /\ lastMsg' = MsgRec(c, t)
        /\ Advance(c, NewIter(room_id, JsonLoads(t).val, t), Tail(buffer[c]))
  /\ buffer' = [buffer EXCEPT ![c] = Tail(@)]
  /\ UNCHANGED <<clients, rooms, stalled, nframes, teardown>>
  /\ lastClose' = NoClose

\* the drain of the current recipient returned (ok) or raised (caught, printed)
BcastResume(c) ==
  /\ pc[c] = "bcast_wait"
  /\ DrainEnds(iter[c].cur)
  /\ \E ok \in BOOLEAN :
       Advance(c, [iter[c] EXCEPT !.cur = NoConn, !.failed = @ \/ ~ok], buffer[c])
  /\ UNCHANGED <<clients, rooms, buffer, stalled, nframes, teardown>>
  /\ lastClose' = NoClose
  /\ lastMsg' = NoMsg

\* ------------------------------------------------------- the specification
\* asyncio runs one task at a time and switches tasks only where the running
\* one suspends: a task in the header loop keeps the event loop to itself.
Next ==
  \E c \in Conns :
    \/ HeaderSpin(c)
    \/ LoopFree /\ HandshakeOk(c) /\ UNCHANGED <<hist, codec, loop>>
    \/ LoopFree /\ HandshakeFail(c) /\ UNCHANGED <<hist, codec, loop>>
    \/ LoopFree /\ HandshakeEOF(c) /\ UNCHANGED <<hist, codec, loop>>
    \/ LoopFree /\ Read(c) /\ UNCHANGED <<hist, codec, loop>>
    \/ LoopFree /\ ReadEOF(c) /\ UNCHANGED <<hist, codec, loop>>
    \/ LoopFree /\ ReadError(c) /\ UNCHANGED <<hist, codec, loop>>
    \/ LoopFree /\ PeerStall(c) /\ UNCHANGED <<hist, codec, loop>>
    \/ LoopFree /\ DispatchClose(c) /\ UNCHANGED <<hist, codec, loop>>
    \/ LoopFree /\ CloseReturn(c) /\ UNCHANGED <<hist, codec, loop>>
    \/ LoopFree /\ DispatchOther(c) /\ UNCHANGED <<hist, codec, loop>>
    \/ LoopFree /\ DispatchPing(c) /\ UNCHANGED <<hist, codec, loop>>
    \/ LoopFree /\ PongDrained(c) /\ UNCHANGED <<hist, codec, loop>>
    \/ LoopFree /\ PongFailed(c) /\ UNCHANGED <<hist, codec, loop>>
    \/ LoopFree /\ DispatchBadText(c) /\ UNCHANGED <<hist, codec, loop>>
    \/ LoopFree /\ HandleDropped(c) /\ UNCHANGED <<hist, codec, loop>>
    \/ LoopFree /\ HandleJoin(c) /\ UNCHANGED <<hist, codec, loop>>
    \/ LoopFree /\ AckDrained(c) /\ UNCHANGED <<hist, codec, loop>>
    \/ LoopFree /\ HandleRelay(c) /\ UNCHANGED <<hist, codec, loop>>
    \/ LoopFree /\ BcastResume(c) /\ UNCHANGED <<hist, codec, loop>>

Spec == Init /\ [][Next]_vars

\* ------------------------------------------- the same server, with a record
\* of arrivals: for every sender the stamp of the message it dispatched last
\* (cur), and for every recipient and sender the stamp of the latest message of
\* the sender written to the recipient (high) and the stamp of the message
\* written before that one (below).
Hist ==
  LET cur == IF lastMsg'.kind = "relay"
             THEN [hist.cur EXCEPT ![lastMsg'.from] = Stamp(lastMsg'.from)]
             ELSE hist.cur
  IN hist' = [cur |-> cur,
              got |-> IF lastWrite'.kind = "relay"
                      THEN [hist.got EXCEPT ![lastWrite'.to][lastWrite'.from] =
                              IF cur[lastWrite'.from] = @.high THEN @
                              ELSE [high |-> cur[lastWrite'.from], below |-> @.high]]
                      ELSE hist.got]

\* a step of the server that takes a frame within OrderFrames, recorded
OrderStep == LoopFree /\ Hist /\ nframes' <= OrderFrames /\ UNCHANGED <<codec, loop>>

OrderNext ==
  \E c \in Conns :
    \/ HeaderSpin(c)
    \/ HandshakeOk(c) /\ OrderStep
    \/ HandshakeFail(c) /\ OrderStep
    \/ HandshakeEOF(c) /\ OrderStep
    \/ Read(c) /\ OrderStep
    \/ ReadEOF(c) /\ OrderStep
    \/ ReadError(c) /\ OrderStep
    \/ PeerStall(c) /\ OrderStep
    \/ DispatchClose(c) /\ OrderStep
    \/ CloseReturn(c) /\ OrderStep
    \/ DispatchOther(c) /\ OrderStep
    \/ DispatchPing(c) /\ OrderStep
    \/ PongDrained(c) /\ OrderStep
    \/ PongFailed(c) /\ OrderStep
    \/ DispatchBadText(c) /\ OrderStep
    \/ HandleDropped(c) /\ OrderStep
    \/ HandleJoin(c) /\ OrderStep
    \/ AckDrained(c) /\ OrderStep
    \/ HandleRelay(c) /\ OrderStep
    \/ BcastResume(c) /\ OrderStep

OrderSpec == Init /\ [][OrderNext]_vars

\* ------------------------------------------------ the codec, fed in chunks
\* A frame built by build arrives in consecutive chunks, each appended to the
\* buffer (buffer += data, line 162).
CodecInit ==
  /\ ServerInit
  /\ loop = NoLoop
  /\ \E payload \in Payloads, opcode \in Opcodes :
       codec = [live |-> TRUE, payload |-> payload, opcode |-> opcode,
                wire |-> build(payload, opcode), rbuf |-> <<>>]

\* where a chunk may end: anywhere in the first bytes, anywhere in the last
\* bytes, in the middle
Cuts(total) ==
  {k \in 0..total : k <= MaxCut \/ k >= total - MaxTail \/ k = total \div 2}

Feed ==
  /\ codec.live
  /\ codec.wire # <<>>
  /\ \E k \in Cuts(Len(codec.rbuf) + Len(codec.wire)) :
       /\ k > Len(codec.rbuf)
       /\ codec' = [codec EXCEPT
                      !.rbuf = @ \o SubSeq(codec.wire, 1, k - Len(codec.rbuf)),
                      !.wire = SubSeq(@, k - Len(codec.rbuf) + 1, Len(@))]
  /\ UNCHANGED <<ServerVars, loop>>

CodecNext == Feed

CodecSpec == CodecInit /\ [][CodecNext]_vars

\* --------------------------------------------- the read loop, byte by byte
\* One connection in OPEN: its peer sends the frames of sent (stream is their
\* bytes, ends[i] the place of the last byte of frame i); the bytes arrive in
\* chunks that end anywhere in the first bytes of a frame, in its last bytes,
\* or in its middle.
LoopInit ==
  /\ ServerInit
  /\ codec = NoCodec
  /\ \E sent \in Wires :
       loop = [NoLoop EXCEPT !.live = TRUE, !.sent = sent, !.stream = Concat(sent),
                             !.ends = [i \in 1..Len(sent) |-> Len(Concat(SubSeq(sent, 1, i)))],
                             !.wire = Concat(sent)]

ChunkEnds ==
  {p \in 1..Len(loop.stream) :
     \E i \in 1..Len(loop.ends) :
       LET from == IF i = 1 THEN 0 ELSE loop.ends[i - 1]
           to == loop.ends[i]
       IN /\ from < p /\ p <= to
          /\ p - from <= MaxCut \/ to - p <= MaxTail \/ p = (from + to) \div 2}

\* the loop after a read of k bytes, r what the inner loop made of the buffer
AfterRead(k, r) ==
  [loop EXCEPT !.wire = SubSeq(@, k + 1, Len(@)),
               !.rbuf = r.rbuf, !.log = r.log, !.done = r.done,
               !.last = Len(r.log) - Len(loop.log)]

\* data = await reader.read(4096); buffer += data; the inner loop
LoopRead ==
  /\ loop.live /\ ~loop.done /\ loop.wire # <<>>
  /\ \E p \in ChunkEnds :
       LET k == p - (Len(loop.stream) - Len(loop.wire))
       IN /\ k >= 1
          /\ loop' = AfterRead(k, Dispatch(loop.rbuf \o SubSeq(loop.wire, 1, k), loop.log))
  /\ UNCHANGED <<ServerVars, codec>>

\* reader.read returned b'': break
LoopEOF ==
  /\ loop.live /\ ~loop.done /\ loop.wire = <<>>
  /\ loop' = [loop EXCEPT !.done = TRUE, !.last = 0]
  /\ UNCHANGED <<ServerVars, codec>>

LoopNext == LoopRead \/ LoopEOF

LoopSpec == LoopInit /\ [][LoopNext]_vars

\* ================================================================ claims
RoomIds == {"A", "default"}
TornDown(c) == pc[c] \in {"closing", "closed", "crashed"}
Bcast == lastBcast.sender # NoConn
Relayed == lastWrite.kind = "relay"

\* C1: a join or a teardown by another task while a broadcast is suspended in a
\* send never makes the broadcast raise an iteration error or abandon members:
\* every broadcast that ends has raised no error and has attempted the send to
\* every connection, other than the sender, that was a member when it began
\* and is still registered.
C1_BroadcastImmuneToMembershipChange ==
  Bcast => ~lastBcast.error /\ lastBcast.missed = {}

\* C2: a relayed frame is never written to a connection that is torn down at the
\* moment of the write: the recipient is registered, is a member of the room and
\* its task has not run close_connection.
C2_NoWriteToTornDown ==
  Relayed => lastWrite.toReg /\ lastWrite.toInRoom /\ ~lastWrite.toDown

\* a relay is written by a broadcast one of whose initial members has been torn
\* down since it began
C2_Witness ==
  /\ Relayed
  /\ \E x \in iter[lastWrite.from].start : TornDown(x) /\ x \notin DOMAIN clients

\* C3: every relayed frame is a final text frame whose JSON content equals the
\* content of the message sent, and a broadcast that ran with no membership
\* change and no failed send has written exactly one frame to every member of
\* the room other than the sender and none to anybody else.
C3_RelayedOnceVerbatim ==
  /\ Relayed =>
       /\ lastWrite.frame.opcode = OpText /\ lastWrite.frame.fin = 1
       /\ JsonLoads(lastWrite.frame.payload) = JsonLoads(lastWrite.orig)
  /\ (Bcast /\ ~lastBcast.changed /\ ~lastBcast.failed) =>
       \A x \in Conns :
         lastBcast.sent[x] = IF x \in lastBcast.start \ {lastBcast.sender} THEN 1 ELSE 0

\* an undisturbed broadcast by a member of the room has ended with two recipients
C3_Witness ==
  /\ Bcast /\ ~lastBcast.changed /\ ~lastBcast.failed
  /\ lastBcast.sender \in lastBcast.start
  /\ Cardinality(lastBcast.start) = 3

\* C4: room isolation: a message sent by a member of some room is never written
\* to a connection that shares no room with the sender.
C4_RoomIsolation ==
  (Relayed /\ lastWrite.fromRooms # {}) => lastWrite.fromRooms \cap lastWrite.toRooms # {}

\* C5: sender exclusion: a relayed frame is never written to the connection that
\* sent the message.
C5_SenderExcluded ==
  Relayed => lastWrite.to # lastWrite.from

\* a relay is written for a sender that is a member of the target room and of
\* another room
C5_Witness ==
  /\ Relayed
  /\ lastWrite.room \in lastWrite.fromRooms
  /\ Cardinality(lastWrite.fromRooms) >= 2

\* C6: teardown cleanup: a connection whose teardown has run is in no room and
\* not registered; no room is left registered with no member; the step that
\* handles a relay naming a room with no registry entry writes nothing, runs no
\* broadcast and leaves the sender's task in its read loop.
C6_TeardownCleanup ==
  /\ \A c \in Conns : TornDown(c) =>
       c \notin DOMAIN clients /\ \A r \in DOMAIN rooms : c \notin rooms[r]
  /\ \A r \in DOMAIN rooms : rooms[r] # {}
  /\ (lastMsg.kind = "relay" /\ ~lastMsg.known) =>
       /\ lastWrite = NoWrite /\ lastBcast = NoBcast
       /\ pc[lastMsg.from] \in {"open", "dispatch"}

\* a relay names a room that a teardown deleted, and is dropped
C6_Witness ==
  /\ lastMsg.kind = "relay" /\ ~lastMsg.known
  /\ \E c \in Conns : TornDown(c) /\ lastMsg.room \in teardown[c].emptied

\* C7: the two registries agree in every state: a registered connection lists a
\* room exactly when the room lists the connection, and every member of a room
\* is registered.
C7_RegistriesAgree ==
  /\ \A c \in DOMAIN clients : \A r \in RoomIds \cup DOMAIN rooms \cup clients[c] :
       r \in clients[c] <=> (r \in DOMAIN rooms /\ c \in rooms[r])
  /\ \A r \in DOMAIN rooms : rooms[r] \subseteq DOMAIN clients

\* a broadcast is suspended in a send while a member it started with is gone
\* and another connection is a member of two rooms
C7_Witness ==
  /\ \E s \in Conns : pc[s] = "bcast_wait" /\ \E x \in iter[s].start : TornDown(x)
  /\ \E c \in DOMAIN clients : Cardinality(clients[c]) = 2

\* C8: a recipient whose send never completes does not block the broadcast: no
\* broadcast waits for the drain of a stalled, still connected recipient while
\* another registered member of the room has not been written to (the loop
\* has no other way to reach that member than past this drain).
C8_StalledRecipientBlocksNobody ==
  \A s \in Conns :
    (pc[s] = "bcast_wait" /\ iter[s].cur \in stalled /\ iter[s].cur \in DOMAIN clients) =>
      {x \in View(iter[s]) \ {s} : x \in DOMAIN clients /\ iter[s].sent[x] = 0} = {}

\* C9: a failed send is skipped: a broadcast in which a send failed has still
\* attempted every other registered member, and its sender is still registered
\* with its task in the read loop.
C9_FailedSendSkipped ==
  (Bcast /\ lastBcast.failed) =>
    /\ lastBcast.missed = {}
    /\ lastBcast.sender \in DOMAIN clients
    /\ pc[lastBcast.sender] \in {"open", "dispatch"}

\* C10: teardown takes effect exactly once for a connection that reached OPEN:
\* never twice, once as soon as any path has invoked it, and the finally
\* clause's repeated invocation changes no registry and raises nothing.
C10_TeardownOnce ==
  /\ \A c \in Conns :
       /\ teardown[c].count <= 1
       /\ TornDown(c) => teardown[c].count = 1
       /\ pc[c] # "crashed"
  /\ lastClose.cause \in {"frame", "eof", "error"} => lastClose.effect /\ ~lastClose.error
  /\ lastClose.cause = "finally" =>
       ~lastClose.effect /\ lastClose.same /\ ~lastClose.error

\* the finally clause has invoked close_connection again after a close frame
C10_Witness ==
  /\ lastClose.cause = "finally"
  /\ pc[lastClose.conn] = "closed"
  /\ teardown[lastClose.conn].count = 1

\* C11: every handshake ends: a connection that is still in HANDSHAKING can
\* take a step that leaves HANDSHAKING (to OPEN or to CLOSED), and a task that
\* stands in its read loop can take its next step whatever the handshakes of
\* other connections do.
InHandshake(c) == pc[c] \in {"handshaking", "header_loop"}

C11_HandshakeLeaves ==
  \A c \in Conns :
    /\ InHandshake(c) => ENABLED (Next /\ ~InHandshake(c)')
    /\ pc[c] = "open" => ENABLED (Next /\ pc'[c] # "open")

\* C12: a text that is no valid JSON, or a JSON object whose type is none of
\* join, presence, offer, answer, ice-candidate, is dropped: the step that
\* handles it changes neither registry, writes nothing, ends no broadcast, runs
\* no teardown, and leaves the sender registered with its task in the read loop.
Unrecognised(t) ==
  LET r == JsonLoads(t) IN
  ~r.ok \/ (r.isdict /\ Get(r.val, "type", None) \notin {"join"} \cup RelayTypes)

JoinOf(m) == m.kind = "join"

C13_JoinAcknowledgedOnly ==
  /\ JoinOf(lastMsg) =>
       /\ lastWrite.kind = "ack"
       /\ lastWrite.to = lastMsg.from /\ lastWrite.from = lastMsg.from
       /\ lastWrite.frame.opcode = OpText /\ lastWrite.frame.fin = 1
       /\ lastWrite.frame.mask = 0
       /\ JsonLoads(lastWrite.frame.payload).ok
       /\ JsonLoads(lastWrite.frame.payload).val =
            << <<"type", "joined">>,
               <<"room", Get(JsonLoads(lastMsg.text).val, "room", "default")>> >>
       /\ lastBcast = NoBcast
       /\ pc[lastMsg.from] = "ack_wait"
  /\ lastWrite.kind = "ack" => JoinOf(lastMsg)
  /\ \A c \in Conns : (pc[c] = "ack_wait" /\ ~JoinOf(lastMsg)) => lastWrite.from # c

\* a connection joins again a room that has another member as well
C13_Witness ==
  /\ JoinOf(lastMsg) /\ lastMsg.member
  /\ rooms[lastMsg.room] \ {lastMsg.from} # {}

\* C14: join idempotence: the step that handles a join for room R from a
\* connection c that is already a member of R leaves both registries exactly
\* as they were; any join leaves c a member of R and R in c's room set, and
\* changes no other room and no other connection's room set.
C14_JoinIdempotent ==
  [][JoinOf(lastMsg') =>
       LET c == lastMsg'.from
           R == lastMsg'.room
       IN /\ lastMsg'.member => (rooms' = rooms /\ clients' = clients)
          /\ R \in DOMAIN rooms' /\ c \in rooms'[R]
          /\ c \in DOMAIN clients' /\ R \in clients'[c]
          /\ DOMAIN rooms' = DOMAIN rooms \cup {R}
          /\ \A r \in DOMAIN rooms \ {R} : rooms'[r] = rooms[r]
          /\ R \in DOMAIN rooms => rooms'[R] = rooms[R] \cup {c}
          /\ DOMAIN clients' = DOMAIN clients
          /\ \A x \in DOMAIN clients \ {c} : clients'[x] = clients[x]
          /\ clients'[c] = clients[c] \cup {R}]_vars

\* a member of two rooms has joined one of them again
C14_Witness ==
  /\ JoinOf(lastMsg) /\ lastMsg.member
  /\ Cardinality(clients[lastMsg.from]) = 2

\* The step of connection c that dispatches a ping writes one frame, to c: an
\* unmasked final pong with the ping's payload; it changes no registry, runs no
\* teardown, and leaves c waiting for the pong's drain with the ping consumed.
PingStep(c) ==
  pc[c] = "dispatch" /\ Head(buffer[c]).opcode = OpPing /\ buffer'[c] # buffer[c]

PongWritten(c) ==
  /\ lastWrite'.to = c /\ lastWrite'.from = c
  /\ lastWrite'.frame =
       [fin |-> 1, opcode |-> 10, mask |-> 0, payload |-> Head(buffer[c]).payload]
  /\ clients' = clients /\ rooms' = rooms
  /\ lastClose' = NoClose /\ lastBcast' = NoBcast /\ lastMsg' = NoMsg
  /\ buffer'[c] = Tail(buffer[c])
  /\ pc'[c] = "pong_wait" /\ c \in DOMAIN clients'

\* the step of c that ends the wait for the pong's drain
PongWaitEnds(c) == pc[c] = "pong_wait" /\ pc'[c] # "pong_wait"

\* c is back in its read loop, nothing written, nothing changed
BackInLoop(c) ==
  /\ pc'[c] \in {"open", "dispatch"} /\ buffer'[c] = buffer[c]
  /\ lastWrite' = NoWrite /\ lastMsg' = NoMsg
  /\ clients' = clients /\ rooms' = rooms

\* C17 as stated: a ping makes exactly one unmasked pong (opcode 0xA, fin=1)
\* with the same payload be written to the same connection before any later
\* frame of the connection is dispatched, and the connection stays OPEN with
\* both registries unchanged.
C17_PingStaysOpen ==
  [][\A c \in Conns :
       /\ PingStep(c) => PongWritten(c)
       /\ PongWaitEnds(c) => BackInLoop(c)]_vars

\* C17, amended: as above, except that when the pong's drain raises (the
\* transport of the connection is lost) the connection is torn down at once by
\* the error path, once, writing nothing and dispatching no later frame.
C17_PingAnswered ==
  [][\A c \in Conns :
       /\ PingStep(c) => PongWritten(c)
       /\ PongWaitEnds(c) =>
            \/ BackInLoop(c)
            \/ /\ lastClose'.conn = c /\ lastClose'.cause = "error" /\ lastClose'.effect
               /\ pc'[c] = "closed" /\ c \notin DOMAIN clients'
               /\ lastWrite' = NoWrite /\ lastMsg' = NoMsg]_vars

\* a member of a room that has another member is written the pong of a ping
\* that carried a payload, and waits for the drain
C17_Witness ==
  /\ lastWrite.frame.opcode = OpPong /\ lastWrite.frame.payload = BadUtf8
  /\ pc[lastWrite.to] = "pong_wait"
  /\ \E r \in lastWrite.toRooms : rooms[r] \ {lastWrite.to} # {}

\* C19: per-sender ordering: a frame written to recipient r belongs to the
\* message its sender s dispatched last, and is never older than a message of
\* s already written to r: the sender dispatches a message only when no
\* broadcast of its own is in progress, and a running broadcast keeps its
\* message from its first write to its last.
C19_SenderOrder ==
  [][/\ lastWrite'.kind = "relay" =>
          LET s == lastWrite'.from
              r == lastWrite'.to
          IN /\ hist'.cur[s] >= hist.got[r][s].high
             /\ hist'.got[r][s].high >= hist.got[r][s].high
             /\ iter'[s].orig = lastWrite'.orig
             /\ iter[s] = NoIter => (lastMsg'.from = s /\ lastMsg'.text = lastWrite'.orig)
             /\ iter[s] # NoIter => lastMsg' = NoMsg
     /\ \A s \in Conns :
          /\ (lastMsg'.from = s /\ lastMsg'.kind = "relay") =>
               /\ iter[s] = NoIter
               /\ hist'.cur[s] > hist.cur[s]
               /\ \A r \in Conns : hist'.cur[s] > hist.got[r][s].high
          /\ (iter[s] # NoIter /\ iter'[s] # NoIter) =>
               /\ iter'[s].orig = iter[s].orig /\ iter'[s].data = iter[s].data
               /\ iter'[s].room = iter[s].room]_vars

\* a recipient that was written one message of a sender is written a later
\* message of the same sender
C19_Witness ==
  /\ Relayed
  /\ hist.got[lastWrite.to][lastWrite.from].below >= 1
  /\ hist.got[lastWrite.to][lastWrite.from].high = hist.cur[lastWrite.from]

\* C20: no relay before the acknowledgment: the step that makes a connection c
\* a member of a room R is the step that writes the joined acknowledgment for
\* R to c, and a relayed frame for R is written only to a connection that was
\* a member of R before the step of the write; so every relay for R to c
\* comes after the acknowledgment of c's first join to R.
Members(rm, R) == IF R \in DOMAIN rm THEN rm[R] ELSE {}

C20_AckBeforeRelay ==
  [][/\ \A R \in RoomIds \cup DOMAIN rooms' : \A c \in Members(rooms', R) \ Members(rooms, R) :
          /\ lastWrite'.kind = "ack" /\ lastWrite'.to = c /\ lastWrite'.room = R
          /\ JsonLoads(lastWrite'.frame.payload).val =
               << <<"type", "joined">>, <<"room", R>> >>
     /\ lastWrite'.kind = "relay" =>
          /\ lastWrite'.to \in Members(rooms, lastWrite'.room)
          /\ rooms' = rooms]_vars

\* a relay is written to a member whose acknowledgment is still being drained
C20_Witness ==
  /\ Relayed
  /\ pc[lastWrite.to] = "ack_wait"
  /\ lastWrite.toInRoom

\* C18: nothing follows a close frame: the step that dispatches a close frame
\* of connection c discards whatever else the buffer of c holds and ends the
\* read loop of c; from then on no step hands a message of c to the router,
\* writes a frame on behalf of c or to c by c's own task, ends a broadcast of
\* c, registers c or makes c a member of a room.
CloseStep(c) ==
  pc[c] = "dispatch" /\ Head(buffer[c]).opcode = OpClose /\ buffer'[c] # buffer[c]

C18_NothingAfterClose ==
  [][\A c \in Conns :
       /\ CloseStep(c) =>
            /\ TornDown(c)' /\ buffer'[c] = <<>>
            /\ lastWrite' = NoWrite /\ lastMsg' = NoMsg /\ lastBcast' = NoBcast
       /\ TornDown(c) =>
            /\ TornDown(c)' /\ buffer'[c] = <<>>
            /\ lastMsg'.from # c /\ lastWrite'.from # c /\ lastBcast'.sender # c
            /\ c \notin DOMAIN clients'
            /\ \A r \in DOMAIN rooms' : c \notin rooms'[r]]_vars

\* a registered member of a room is torn down by a close frame that had a
\* complete frame behind it in the same buffer
C18_Witness ==
  /\ lastClose.cause = "frame" /\ lastClose.effect /\ lastClose.left = 2
  /\ pc[lastClose.conn] = "closing" /\ buffer[lastClose.conn] = <<>>
  /\ teardown[lastClose.conn].emptied # {}

\* C15: streaming reassembly and round trip: while bytes of a built frame are
\* still to come parse finds no frame in the buffer, and once all bytes are in
\* the buffer parse returns a frame with fin = 1, the opcode and the payload
\* that were built, and the length of the whole built frame.
C15_StreamingRoundTrip ==
  codec.live =>
    /\ codec.rbuf \o codec.wire = build(codec.payload, codec.opcode)
    /\ IF codec.wire # <<>>
       THEN parse(codec.rbuf) = NoFrame
       ELSE parse(codec.rbuf) =
              [ok |-> TRUE, fin |-> 1, opcode |-> codec.opcode,
               payload |-> codec.payload, length |-> Len(codec.rbuf)]

\* the shortest payload that needs an extended length has arrived whole
C15_Witness ==
  /\ codec.live /\ codec.wire = <<>>
  /\ Len(codec.payload) = Len7Max + 1
  /\ parse(codec.rbuf).ok /\ parse(codec.rbuf).length = Len(codec.payload) + 4

\* C16: the frames dispatched so far are the first frames the peer sent, each
\* once, in wire order, decoded, each with its whole length on the wire; as
\* long as no close frame was dispatched they are all the frames that have
\* arrived whole, and the buffer holds exactly the bytes that arrived after
\* them, which parse finds no frame in.
EndOf(i) == IF i = 0 THEN 0 ELSE loop.ends[i]
Arrived == Len(loop.stream) - Len(loop.wire)

====
